---- MODULE Spec2Model ----
(***************************************************************************)
(* The conversation / function-calling loop of the AIOps Assistant:        *)
(* Conversation.run_prompt_old and Conversation.reset                      *)
(* (src/assistant/conversation.py) driving OpenaiGPT.run_prompt            *)
(* (src/assistant/models/openai_gpt.py) and the probe controller's         *)
(* function_call.                                                          *)
(*                                                                         *)
(* run_prompt_old reads self._model and self._controller, which the        *)
(* present __init__ no longer binds (the wiring is commented out at        *)
(* conversation.py:29-30 and :92).  The model takes them bound as that     *)
(* wiring binds them: _model an OpenaiGPT, _controller a ProbeController.  *)
(* self._prompts is bound by reset() only, and that is modelled as it is.  *)
(*                                                                         *)
(* probes/controller.py is not among the sources; FunctionCall and         *)
(* FunctionList are modelled from the specification of the Probe           *)
(* Dispatcher.                                                             *)
(*                                                                         *)
(* Four further specifications share the module: RoundTripSpec (the JSON   *)
(* encoding and decoding of function-call arguments), ProbeSpec (the       *)
(* database tools of src/assistant/probes/database.py), AssistantSpec      *)
(* (the configuration, the constructors of Conversation and OpenaiGPT, and *)
(* run_assistant / run_conversation of src/assistant/assistant.py) and     *)
(* ConfigSpec (load, check_value and get_value of src/assistant/config.py). *)
(* run_conversation calls chat_reset and chat_completion, which the        *)
(* OpenaiGPT of the sources does not have; ChatCompletion is modelled from *)
(* what run_conversation reads of its result.                              *)
(***************************************************************************)
EXTENDS Integers, Sequences, FiniteSets, TLC

VARIABLES
    prompts,      \* self._prompts: the conversation history
    has_prompts,  \* whether the attribute self._prompts exists
    catalog,      \* the function catalog the controller advertises
    pc,           \* position of run_prompt_old: "idle", "invoke", "pending"
    response,     \* run_prompt_old's local `response`
    sent,         \* gpt_prompts of the last request handed to the backend
    result,       \* what the last run_prompt_old call gave its caller
    base,         \* history length when the current turn was entered
    rounds,       \* function dispatches done in the current turn
    calls,        \* model invocations made in the current turn
    turns,        \* run_prompt_old calls made so far
    invocations,  \* model invocations made so far
    last,         \* the operation of the Conversation that ran last
    fn,           \* the function a call outside the loop is made to
    stage,        \* how far that call has got
    input,        \* its arguments
    output,       \* what it gave
    assistant_config,  \* the configuration the modules hold
    proc,         \* the process: "running", "exited", "raised"
    client,       \* the OpenaiGPT object and the globals its __init__ sets
    conv,         \* the Conversation object __init__ built
    rc_pc,        \* position of run_assistant: "input", "print", "done"
    chat,         \* the messages run_conversation exchanged with its client
    rc_response,  \* the last response run_conversation got from its client
    returned,     \* what run_conversation gave run_assistant
    requests      \* model invocations made, by who made them

loopVars == <<prompts, has_prompts, catalog, pc, response, sent, result,
              base, rounds, calls, turns, invocations, last>>

pureVars == <<fn, stage, input, output>>

procVars == <<assistant_config, proc, client, conv, rc_pc, chat, rc_response,
              returned, requests>>

vars == <<loopVars, pureVars, procVars>>

-----------------------------------------------------------------------------
(* Bounds of the model. *)

MaxTurns == 2

MaxInvocations == 5

MaxPairs == 2

MaxRequests == 2

(* The round-trip limit the agent of __init__ is built with. *)
MaxRoundTrips == 3

-----------------------------------------------------------------------------
(* JSON text is a sequence of tokens <<kind, text>>: punctuation "p", a     *)
(* string literal "s", a bare word "w".  A Python str is the token         *)
(* sequence of its characters; a Python dict is a sequence of              *)
(* <<key, value>> pairs in insertion order.                                *)

Tok(k, x) == <<k, x>>

LBrace == Tok("p", "{")

RBrace == Tok("p", "}")

Colon == Tok("p", ":")

Comma == Tok("p", ",")

PyAbsent == [t |-> "absent", v |-> <<>>]

PyStr(toks) == [t |-> "str", v |-> toks]

PyDict(pairs) == [t |-> "dict", v |-> pairs]

RaisedValue == [t |-> "raised", v |-> <<>>]

RECURSIVE DumpsPairs(_)
DumpsPairs(pairs) ==
    IF pairs = <<>> THEN <<>>
    ELSE <<Tok("s", pairs[1][1]), Colon, Tok("s", pairs[1][2])>>
         \o (IF Len(pairs) > 1 THEN <<Comma>> ELSE <<>>)
         \o DumpsPairs(Tail(pairs))

(* The characters of a token sequence, as one string. *)
RECURSIVE Characters(_)
Characters(toks) ==
    IF toks = <<>> THEN ""
    ELSE (IF toks[1][1] = "s" THEN "'" \o toks[1][2] \o "'" ELSE toks[1][2])
         \o Characters(Tail(toks))

(* json.dumps of a stored arguments value: the text, as a Python str. *)
JsonDumpsRepr(val) ==
    IF val.t = "dict"
    THEN PyStr(<<LBrace>>
               \o [i \in 1..Len(val.v) |->
                      Tok("w", "'" \o val.v[i][1] \o "': '" \o val.v[i][2] \o "'")]
               \o <<RBrace>>)
    ELSE PyStr(val.v)

JsonDumps(val) ==
    IF val.t = "dict"
    THEN PyStr(<<LBrace>> \o DumpsPairs(val.v) \o <<RBrace>>)
    ELSE PyStr(<<Tok("s", Characters(val.v))>>)

(* dict[k] = v: replaces the value of a key already present. *)
DictPut(pairs, k, x) ==
    IF \E i \in 1..Len(pairs) : pairs[i][1] = k
    THEN [i \in 1..Len(pairs) |->
              IF pairs[i][1] = k THEN <<k, x>> ELSE pairs[i]]
    ELSE Append(pairs, <<k, x>>)

(* The members of an object after its opening brace, up to the closing one. *)
RECURSIVE LoadsMembers(_, _)
LoadsMembers(toks, acc) ==
    IF Len(toks) >= 4 /\ toks[1][1] = "s" /\ toks[2] = Colon /\ toks[3][1] = "s"
    THEN LET got == DictPut(acc, toks[1][2], toks[3][2])
         IN  IF Len(toks) = 4 /\ toks[4] = RBrace THEN PyDict(got)
             ELSE IF toks[4] = Comma
                  THEN LoadsMembers(SubSeq(toks, 5, Len(toks)), got)
                  ELSE RaisedValue
    ELSE RaisedValue

(* json.loads of a text: the value, or RaisedValue for JSONDecodeError. *)
JsonLoads(text) ==
    LET toks == text.v
    IN  IF Len(toks) = 1 /\ toks[1][1] = "s"
        THEN (IF toks[1][2] = "" THEN PyStr(<<>>)
              ELSE PyStr(<<Tok("w", toks[1][2])>>))
        ELSE IF toks = <<LBrace, RBrace>> THEN PyDict(<<>>)
        ELSE IF Len(toks) >= 1 /\ toks[1] = LBrace
             THEN LoadsMembers(Tail(toks), <<>>)
             ELSE RaisedValue

(* Python truthiness of an arguments value fetched with .get(). *)
Truthy(val) == val.t # "absent" /\ val.v # <<>>

-----------------------------------------------------------------------------
(* Messages.  A key a Python dict lacks is a field with the value None /    *)
(* not present, so that all messages are records of one shape.             *)

None == "None"

NoCall == [present |-> FALSE, name |-> None, arguments |-> PyAbsent]

Call(n, a) == [present |-> TRUE, name |-> n, arguments |-> a]

Message(r, c, n, fc) ==
    [role |-> r, content |-> c, name |-> n, function_call |-> fc]

NoMessage == Message(None, None, None, NoCall)

UserMessage(prompt) == Message("user", prompt, None, NoCall)

FunctionMessage(function_name, function_response) ==
    Message("function", function_response, function_name, NoCall)

NoResponse == [next_step |-> None, message |-> NoMessage]

Returned(msg) == [kind |-> "message", exc |-> None, message |-> msg]

Raised(e) == [kind |-> "raised", exc |-> e, message |-> NoMessage]

NoResult == [kind |-> None, exc |-> None, message |-> NoMessage]

-----------------------------------------------------------------------------
(* The probe controller. *)

ListServersName == "database_list_servers"

BogusName == "no_such_function"

FunctionList == {ListServersName}

UnknownFunctionText == "unknown function"

ProbeText == "Server Name,Database Type,Hostname"

(* controller.function_call(name, arguments): never raises. *)
FunctionCall(cat, function_name, arguments) ==
    IF function_name \in cat THEN ProbeText ELSE UnknownFunctionText

-----------------------------------------------------------------------------
(* The backend: what openai.ChatCompletion.create may answer. *)

UserPrompts == {"list servers of type mysql"}

MysqlText == PyStr(<<LBrace, Tok("s", "db_type"), Colon, Tok("s", "mysql"), RBrace>>)

MalformedText == PyStr(<<LBrace, Tok("s", "db_type")>>)

AnswerMessage == Message("assistant", "answer", None, NoCall)

CallMessage(n, text) == Message("assistant", None, None, Call(n, text))

(* choices[0] of an api_response: finish_reason (None when the key is      *)
(* missing) and the message, its function_call arguments still text.  The  *)
(* backend sends a function_call with finish_reason 'function_call' and    *)
(* with no other; its arguments may be missing, empty, an object or cut    *)
(* short.                                                                  *)
ApiChoices ==
    {[finish_reason |-> f, message |-> AnswerMessage] :
         f \in {"stop", "length", None}}
    \cup {[finish_reason |-> "function_call", message |-> CallMessage(ListServersName, a)] :
         a \in {PyAbsent, PyStr(<<>>), MysqlText, MalformedText}}
    \cup {[finish_reason |-> "function_call", message |-> CallMessage(BogusName, MysqlText)]}

-----------------------------------------------------------------------------
(* OpenaiGPT.run_prompt *)

HasCall(p) == p.function_call.present

(* Line 65 reads p['function_call']['arguments']: KeyError without the key. *)
EncodeRaises(ps) ==
    \E i \in 1..Len(ps) : HasCall(ps[i]) /\ ps[i].function_call.arguments.t = "absent"

(* gpt_prompts: the history with every function_call's arguments encoded. *)
GptPromptsLastOnly(ps) == IF ps = <<>> THEN <<>> ELSE <<ps[Len(ps)]>>

GptPrompts(ps) ==
    [i \in 1..Len(ps) |->
        IF HasCall(ps[i])
        THEN [ps[i] EXCEPT !.function_call.arguments = JsonDumps(@)]
        ELSE ps[i]]

(* The caller's list after the encoding: line 62 encodes a deep copy. *)
PromptsAfterEncodingInPlace(ps) == GptPrompts(ps)

PromptsAfterEncoding(ps) == ps

(* next_step: finish_reason, 'error' when the backend gave none. *)
NextStep(choice) ==
    IF choice.finish_reason = None THEN "error" ELSE choice.finish_reason

(* Lines 112-113: arguments are decoded when there is a function_call      *)
(* with a non-empty arguments text.                                        *)
NeedsDecoding(msg) == HasCall(msg) /\ Truthy(msg.function_call.arguments)

DecodeRaises(choice) ==
    /\ NeedsDecoding(choice.message)
    /\ JsonLoads(choice.message.function_call.arguments) = RaisedValue

(* prompt_response, for a choice whose arguments decode. *)
PromptResponse(choice) ==
    [next_step |-> NextStep(choice),
     message |-> IF NeedsDecoding(choice.message)
                 THEN [choice.message EXCEPT
                          !.function_call.arguments = JsonLoads(@)]
                 ELSE choice.message]

-----------------------------------------------------------------------------
(* Conversation *)

(* openai.api_key and Model.model_name before any OpenaiGPT is built. *)
NoClient == [built |-> FALSE, api_key |-> PyAbsent, model_name |-> PyAbsent]

NoConversation == [state |-> None, openai_key |-> PyAbsent, model_name |-> PyAbsent]

(* The callers of the model backend. *)
Callers == {"conversation", "client", "assistant"}

(* No process is started. *)
NoProcess ==
    /\ assistant_config = PyAbsent
    /\ proc = None
    /\ client = NoClient
    /\ conv = NoConversation
    /\ rc_pc = None
    /\ chat = <<>>
    /\ rc_response = NoMessage
    /\ returned = NoResult
    /\ requests = [w \in Callers |-> 0]

(* No call outside the loop is under way. *)
NoOtherCall ==
    /\ fn = None
    /\ stage = None
    /\ input = <<>>
    /\ output = <<>>

Init ==
    /\ prompts = <<>>
    /\ has_prompts = FALSE
    /\ catalog = FunctionList
    /\ pc = "idle"
    /\ response = NoResponse
    /\ sent = <<>>
    /\ result = NoResult
    /\ base = 0
    /\ rounds = 0
    /\ calls = 0
    /\ turns = 0
    /\ invocations = 0
    /\ last = "init"
    /\ NoOtherCall
    /\ NoProcess

(* Line 149: the list reset() binds self._prompts to. *)
ClearedPromptsPrimedOnto(ps) == Append(ps, Message("system", "persona", None, NoCall))

ClearedPromptsKept(ps) == ps

ClearedPrompts(ps) == <<>>

(* Conversation.reset, called between turns. *)
Reset ==
    /\ pc = "idle"
    /\ prompts' = ClearedPrompts(prompts)
    /\ has_prompts' = TRUE
    /\ last' = "reset"
    /\ UNCHANGED <<catalog, pc, response, sent, result, base,
                   rounds, calls, turns, invocations>>

(* run_prompt_old on a Conversation that reset() never primed: line 161    *)
(* reads self._prompts, which does not exist.                              *)
RunPromptOldUnprimed ==
    /\ pc = "idle"
    /\ turns < MaxTurns
    /\ ~has_prompts
    /\ result' = Raised("AttributeError")
    /\ turns' = turns + 1
    /\ last' = "prompt"
    /\ UNCHANGED <<prompts, has_prompts, catalog, pc, response, sent,
                   base, rounds, calls, invocations>>

(* run_prompt_old, line 161: the user's message is appended and the loop   *)
(* is entered.                                                             *)
RunPromptOld(prompt) ==
    /\ pc = "idle"
    /\ turns < MaxTurns
    /\ has_prompts
    /\ prompts' = Append(prompts, UserMessage(prompt))
    /\ pc' = "invoke"
    /\ response' = NoResponse
    /\ result' = NoResult
    /\ base' = Len(prompts)
    /\ rounds' = 0
    /\ calls' = 0
    /\ turns' = turns + 1
    /\ last' = "prompt"
    /\ UNCHANGED <<has_prompts, catalog, sent, invocations>>

(* An exception leaves run_prompt_old: nothing more is appended. *)
Raise(e, ps) ==
    /\ prompts' = ps
    /\ pc' = "idle"
    /\ result' = Raised(e)
    /\ UNCHANGED <<response>>

Invoked ==
    /\ pc = "invoke"
    /\ invocations < MaxInvocations
    /\ calls' = calls + 1
    /\ invocations' = invocations + 1
    /\ last' = "model"
    /\ UNCHANGED <<has_prompts, catalog, base, rounds, turns>>

(* Line 166, the encoding of the history raising KeyError. *)
ModelKeyError ==
    /\ Invoked
    /\ EncodeRaises(prompts)
    /\ Raise("KeyError", prompts)
    /\ UNCHANGED sent

(* Line 166, openai.ChatCompletion.create raising (auth, network, rate     *)
(* limit).                                                                 *)
ModelTransportFailure ==
    /\ Invoked
    /\ ~EncodeRaises(prompts)
    /\ sent' = GptPrompts(prompts)
    /\ Raise("APIError", PromptsAfterEncoding(prompts))

(* Line 166, json.loads raising on the arguments the backend sent. *)
ModelDecodeError(choice) ==
    /\ Invoked
    /\ ~EncodeRaises(prompts)
    /\ DecodeRaises(choice)
    /\ sent' = GptPrompts(prompts)
    /\ Raise("JSONDecodeError", PromptsAfterEncoding(prompts))

(* Line 170. *)
AppendResponseTwice(ps, resp) == Append(Append(ps, resp.message), resp.message)

AppendResponse(ps, resp) == Append(ps, resp.message)

(* Lines 172-197: where the match leaves the loop. *)
AfterMatchRetry(next_step) ==
    CASE next_step = "function_call" -> "pending"
      [] next_step = "stop" -> "idle"
      [] OTHER -> "invoke"

AfterMatch(next_step) ==
    CASE next_step = "function_call" -> "pending"
      [] next_step = "stop" -> "idle"
      [] OTHER -> "idle"

(* Lines 166-172 and 190-199: the model answers, the message is appended,  *)
(* and the loop either goes on to the function call or returns.            *)
ModelResponds(choice) ==
    /\ Invoked
    /\ ~EncodeRaises(prompts)
    /\ ~DecodeRaises(choice)
    /\ sent' = GptPrompts(prompts)
    /\ LET resp == PromptResponse(choice)
       IN  /\ response' = resp
           /\ prompts' = AppendResponse(PromptsAfterEncoding(prompts), resp)
           /\ pc' = AfterMatch(resp.next_step)
           /\ result' = IF AfterMatch(resp.next_step) = "idle"
                        THEN Returned(resp.message) ELSE result

(* Lines 183-189. *)
AppendFunctionSkipped(ps, function_name, function_response) == ps

AppendFunctionUnnamed(ps, function_name, function_response) ==
    Append(ps, FunctionMessage(None, function_response))

AppendFunction(ps, function_name, function_response) ==
    Append(ps, FunctionMessage(function_name, function_response))

(* Lines 175-189: the function is called and its result appended. *)
Dispatch ==
    /\ pc = "pending"
    /\ LET function_name == response.message.function_call.name
           function_response ==
               FunctionCall(catalog, function_name,
                            response.message.function_call.arguments)
       IN  prompts' = AppendFunction(prompts, function_name, function_response)
    /\ pc' = "invoke"
    /\ rounds' = rounds + 1
    /\ last' = "dispatch"
    /\ UNCHANGED <<has_prompts, catalog, response, sent, result, base,
                   calls, turns, invocations>>

Next ==
    /\ \/ Reset
       \/ RunPromptOldUnprimed
       \/ \E prompt \in UserPrompts : RunPromptOld(prompt)
       \/ ModelKeyError
       \/ ModelTransportFailure
       \/ \E choice \in ApiChoices : ModelDecodeError(choice)
       \/ \E choice \in ApiChoices : ModelResponds(choice)
       \/ Dispatch
    /\ UNCHANGED <<pureVars, procVars>>

Spec == Init /\ [][Next]_vars

-----------------------------------------------------------------------------
(* The encoding and decoding of function_call arguments, on their own. *)

ArgKeys == {"db_type", "db_server", "db_name"}

ArgValues == {"mysql", "", "sr-dbs01"}

(* The dicts of at most MaxPairs entries, as sequences of distinct keys. *)
ArgDicts ==
    {d \in UNION {[1..n -> ArgKeys \X ArgValues] : n \in 0..MaxPairs} :
        \A i, j \in 1..Len(d) : i # j => d[i][1] # d[j][1]}

RoundTripInit ==
    /\ prompts = <<>>
    /\ has_prompts = FALSE
    /\ catalog = FunctionList
    /\ pc = "idle"
    /\ response = NoResponse
    /\ sent = <<>>
    /\ result = NoResult
    /\ base = 0
    /\ rounds = 0
    /\ calls = 0
    /\ turns = 0
    /\ invocations = 0
    /\ last = "init"
    /\ fn = "arguments"
    /\ stage = "args"
    /\ input \in {PyDict(d) : d \in ArgDicts}
    /\ output = <<>>
    /\ NoProcess

(* openai_gpt.py:62-65 on a history holding a function call with the       *)
(* arguments.                                                              *)
Encode ==
    /\ fn = "arguments"
    /\ stage = "args"
    /\ stage' = "encoded"
    /\ output' = GptPrompts(<<CallMessage(ListServersName, input)>>)[1]
                     .function_call.arguments
    /\ UNCHANGED <<fn, input>>

(* openai_gpt.py:104-119 on a backend response carrying that text. *)
Decode ==
    /\ fn = "arguments"
    /\ stage = "encoded"
    /\ stage' = "decoded"
    /\ LET choice == [finish_reason |-> "function_call",
                      message |-> CallMessage(ListServersName, output)]
       IN  output' = IF DecodeRaises(choice) THEN RaisedValue
                     ELSE PromptResponse(choice).message.function_call.arguments
    /\ UNCHANGED <<fn, input>>

RoundTripNext ==
    /\ \/ Encode
       \/ Decode
    /\ UNCHANGED <<loopVars, procVars>>

RoundTripSpec == RoundTripInit /\ [][RoundTripNext]_vars

-----------------------------------------------------------------------------
(* The database probe (src/assistant/probes/database.py).  The strings the *)
(* probe lower-cases and compares are sequences of characters.             *)

UpperCase == <<"A", "B", "C", "D", "E", "F", "G", "H", "I", "J", "K", "L", "M",
               "N", "O", "P", "Q", "R", "S", "T", "U", "V", "W", "X", "Y", "Z">>

LowerCase == <<"a", "b", "c", "d", "e", "f", "g", "h", "i", "j", "k", "l", "m",
               "n", "o", "p", "q", "r", "s", "t", "u", "v", "w", "x", "y", "z">>

LowerChar(c) ==
    IF \E i \in 1..Len(UpperCase) : UpperCase[i] = c
    THEN LowerCase[CHOOSE i \in 1..Len(UpperCase) : UpperCase[i] = c]
    ELSE c

(* str.lower() *)
Lower(str) == [i \in 1..Len(str) |-> LowerChar(str[i])]

MySQL == <<"M", "y", "S", "Q", "L">>

MongoDB == <<"M", "o", "n", "g", "o", "D", "B">>

PostgreSQL == <<"P", "o", "s", "t", "g", "r", "e", "S", "Q", "L">>

SrDbs01 == <<"s", "r", "-", "d", "b", "s", "0", "1">>

SrDbs03 == <<"s", "r", "-", "d", "b", "s", "0", "3">>

SrDbs04 == <<"s", "r", "-", "d", "b", "s", "0", "4">>

(* _db_keys *)
DbKeys == {<<"m", "y", "s", "q", "l">>,
           <<"p", "o", "s", "t", "g", "r", "e", "s", "q", "l">>,
           <<"m", "o", "n", "g", "o", "d", "b">>}

(* _unknown_db_type(key) *)
UnknownDbTypeAsEmptyList(key) == [kind |-> "csv", key |-> <<>>, header |-> None, rows |-> <<>>]

UnknownDbType(key) == [kind |-> "message", key |-> key, header |-> None, rows |-> <<>>]

(* The CSV text: its header line and the lines after it. *)
Csv(header, rows) == [kind |-> "csv", key |-> <<>>, header |-> header, rows |-> rows]

Servers ==
    <<[name |-> "sr-dbs01", type |-> MySQL, hostname |-> "sr-dbs01.core.lennoxconsulting.com.au"],
      [name |-> "sr-dbs02", type |-> MongoDB, hostname |-> "sr-dbs02.core.lennoxconsulting.com.au"],
      [name |-> "sr-dbs03", type |-> PostgreSQL, hostname |-> "sr-dbs03.core.lennoxconsulting.com.au"],
      [name |-> "sr-dbs04", type |-> MySQL, hostname |-> "sr-dbs04.lab.lennoxconsulting.com.au"],
      [name |-> "sr-dbs04", type |-> PostgreSQL, hostname |-> "sr-dbs04.lab.lennoxconsulting.com.au"]>>

Databases ==
    <<[name |-> "netbox", type |-> PostgreSQL, server |-> SrDbs03],
      [name |-> "netbox-test", type |-> PostgreSQL, server |-> SrDbs04],
      [name |-> "netbox-dev", type |-> PostgreSQL, server |-> SrDbs04],
      [name |-> "taiga", type |-> MySQL, server |-> SrDbs01],
      [name |-> "homeassistant", type |-> MySQL, server |-> SrDbs01],
      [name |-> "wordpress", type |-> MySQL, server |-> SrDbs01]>>

ServersHeader == "Server Name,Database Type,Hostname"

DatabasesHeader == "Database Name,Database Type,Database Server"

(* An optional argument: left out, None, or a string. *)
Omitted == [given |-> "omitted", str |-> <<>>]

NoneArg == [given |-> "none", str |-> <<>>]

StrArg(str) == [given |-> "str", str |-> str]

(* Input data cleanup: the default '' of an argument left out, '' for      *)
(* None, and the string lower-cased.                                       *)
CleanUpStr(arg) ==
    IF arg.given = "none" THEN <<"n", "o", "n", "e">>
    ELSE IF arg.given = "str" THEN Lower(arg.str) ELSE <<>>

CleanUp(arg) == IF arg.given = "str" THEN Lower(arg.str) ELSE <<>>

(* database.py:110 *)
ServerSelected(db_type, server) == db_type = <<>> \/ db_type = server.type

(* ListServers._run *)
ListServersRun(type_arg) ==
    LET db_type == CleanUp(type_arg)
        Selected(server) == ServerSelected(db_type, server)
    IN  IF db_type # <<>> /\ db_type \notin DbKeys
        THEN UnknownDbType(db_type)
        ELSE Csv(ServersHeader, SelectSeq(Servers, Selected))

(* database.py:182-183 *)
DatabaseSelectedAsStored(db_type, db_server, db) ==
    /\ (db_type = <<>> \/ db_type = db.type)
    /\ (db_server = <<>> \/ db_server = db.server)

DatabaseSelected(db_type, db_server, db) ==
    /\ (db_type = <<>> \/ db_type = Lower(db.type))
    /\ (db_server = <<>> \/ db_server = Lower(db.server))

(* ListDatabases._run *)
ListDatabasesRun(server_arg, type_arg) ==
    LET db_server == CleanUp(server_arg)
        db_type == CleanUp(type_arg)
        Selected(db) == DatabaseSelected(db_type, db_server, db)
    IN  IF db_type # <<>> /\ db_type \notin DbKeys
        THEN UnknownDbType(db_type)
        ELSE Csv(DatabasesHeader, SelectSeq(Databases, Selected))

(* The arguments the probe is called with. *)
TypeArgs ==
    {Omitted, NoneArg, StrArg(<<>>)}
    \cup {StrArg(t) : t \in {MySQL, MongoDB, PostgreSQL}}
    \cup {StrArg(Lower(t)) : t \in {MySQL, MongoDB, PostgreSQL}}
    \cup {StrArg(<<"M", "Y", "S", "Q", "L">>), StrArg(<<"O", "r", "a", "c", "l", "e">>)}

ServerArgs ==
    {Omitted, NoneArg, StrArg(<<>>)}
    \cup {StrArg(n) : n \in {SrDbs01, SrDbs03, SrDbs04}}
    \cup {StrArg(<<"S", "R", "-", "D", "B", "S", "0", "1">>),
          StrArg(<<"s", "r", "-", "d", "b", "s", "0", "9">>)}

ProbeInit ==
    /\ prompts = <<>>
    /\ has_prompts = FALSE
    /\ catalog = FunctionList
    /\ pc = "idle"
    /\ response = NoResponse
    /\ sent = <<>>
    /\ result = NoResult
    /\ base = 0
    /\ rounds = 0
    /\ calls = 0
    /\ turns = 0
    /\ invocations = 0
    /\ last = "init"
    /\ stage = "args"
    /\ output = <<>>
    /\ NoProcess
    /\ \/ /\ fn = "ListServers"
          /\ input \in [db_server : {Omitted}, db_type : TypeArgs]
       \/ /\ fn = "ListDatabases"
          /\ input \in [db_server : ServerArgs, db_type : TypeArgs]

RunListServers ==
    /\ fn = "ListServers"
    /\ stage = "args"
    /\ stage' = "done"
    /\ output' = ListServersRun(input.db_type)
    /\ UNCHANGED <<fn, input>>

RunListDatabases ==
    /\ fn = "ListDatabases"
    /\ stage = "args"
    /\ stage' = "done"
    /\ output' = ListDatabasesRun(input.db_server, input.db_type)
    /\ UNCHANGED <<fn, input>>

ProbeNext ==
    /\ \/ RunListServers
       \/ RunListDatabases
    /\ UNCHANGED <<loopVars, procVars>>

ProbeSpec == ProbeInit /\ [][ProbeNext]_vars

-----------------------------------------------------------------------------
(* The configuration (src/assistant/config.py) and the start of the        *)
(* process.  The configuration is the YAML document as Python holds it: a  *)
(* dict is a sequence of <<key, value>> pairs, a str, key or value, the    *)
(* sequence of its characters.  config._assistant_config and               *)
(* assistant.assistant_config are loaded from the same file by the same    *)
(* code and are one variable here; PyAbsent is the None of a               *)
(* configuration that was never loaded.                                    *)

OpenaiKey == <<"o", "p", "e", "n", "a", "i">>

TokenKey == <<"t", "o", "k", "e", "n">>

ModelKey == <<"m", "o", "d", "e", "l">>

LogLevelKey == <<"l", "o", "g", "_", "l", "e", "v", "e", "l">>

(* The model OpenaiGPT and Conversation fall back to. *)
DefaultModel == PyStr(<<"g", "p", "t", "-", "3", ".", "5", "-", "t", "u", "r", "b", "o", "-", "0", "6", "1", "3">>)

GivenModel == PyStr(<<"g", "p", "t", "-", "4">>)

GivenToken == PyStr(<<"s", "k", "-", "1">>)

(* What load() starts from. *)
DefaultConfig == <<<<LogLevelKey, PyStr(<<"w", "a", "r", "n">>)>>>>

(* The configurations a process may have loaded: none, the defaults, an    *)
(* openai section with or without token and model, and an openai entry     *)
(* that is a string.                                                       *)
Configs ==
    {PyAbsent,
     PyDict(DefaultConfig),
     PyDict(Append(DefaultConfig, <<OpenaiKey, PyStr(<<"n", "o", "-", "t", "o", "k", "e", "n">>)>>))}
    \cup {PyDict(Append(DefaultConfig, <<OpenaiKey, PyDict(section)>>)) :
            section \in {<<>>,
                         <<<<TokenKey, GivenToken>>>>,
                         <<<<ModelKey, GivenModel>>>>,
                         <<<<TokenKey, GivenToken>>, <<ModelKey, GivenModel>>>>}}

DictHas(pairs, k) == \E i \in 1..Len(pairs) : pairs[i][1] = k

DictGet(pairs, k) == pairs[CHOOSE i \in 1..Len(pairs) : pairs[i][1] = k][2]

IsSubstring(k, str) ==
    \E i \in 0..(Len(str) - Len(k)) : SubSeq(str, i + 1, i + Len(k)) = k

(* `k in node`: a key of a dict, a substring of a str. *)
Contains(node, k) ==
    IF node.t = "dict" THEN DictHas(node.v, k) ELSE IsSubstring(k, node.v)

Found(val) == [exc |-> None, val |-> val]

Failed(e) == [exc |-> e, val |-> PyAbsent]

(* The loop of get_value over the components of the key: ValueError for a  *)
(* component that is not in the node, TypeError for indexing a str with    *)
(* one that is.                                                            *)
RECURSIVE Walk(_, _)
Walk(node, ks) ==
    IF ks = <<>> THEN Found(node)
    ELSE IF ~Contains(node, ks[1]) THEN Failed("ValueError")
    ELSE IF node.t = "dict" THEN Walk(DictGet(node.v, ks[1]), Tail(ks))
    ELSE Failed("TypeError")

(* config.get_value(key), key given as its dot-separated components. *)
GetValue(cfg, ks) ==
    IF cfg = PyAbsent THEN Failed("ValueError") ELSE Walk(cfg, ks)

(* Conversation.__init__(model_name), conversation.py:94-137. *)
ConversationInit(model_name) ==
    /\ proc = "running"
    /\ conv.state = None
    /\ IF model_name = "openai"
       THEN LET key == GetValue(assistant_config, <<OpenaiKey, TokenKey>>)
                name == GetValue(assistant_config, <<OpenaiKey, ModelKey>>)
            IN  IF key.exc = "ValueError"
                THEN proc' = "exited" /\ UNCHANGED conv
                ELSE IF key.exc = "TypeError" \/ name.exc = "TypeError"
                THEN proc' = "raised" /\ UNCHANGED conv
                ELSE /\ conv' = [state |-> "ready",
                                 openai_key |-> key.val,
                                 model_name |-> IF name.exc = "ValueError"
                                                THEN DefaultModel ELSE name.val]
                     /\ UNCHANGED proc
       ELSE /\ conv' = [conv EXCEPT !.state = "halfbuilt"]
            /\ UNCHANGED proc
    /\ UNCHANGED <<assistant_config, client, rc_pc, chat, rc_response,
                   returned, requests>>

(* Conversation.run_prompt: the agent invokes the model; an object whose   *)
(* __init__ returned at line 116 has no _agent.                            *)
ConversationRunPrompt ==
    /\ proc = "running"
    /\ conv.state \in {"ready", "halfbuilt"}
    /\ requests["conversation"] < MaxRequests
    /\ IF conv.state = "ready"
       THEN /\ requests' = [requests EXCEPT !["conversation"] = @ + 1]
            /\ UNCHANGED proc
       ELSE /\ proc' = "raised"
            /\ UNCHANGED requests
    /\ UNCHANGED <<assistant_config, client, conv, rc_pc, chat, rc_response,
                   returned>>

(* OpenaiGPT.__init__, openai_gpt.py:26-42: only ValueError is handled. *)
OpenaiGPTInit ==
    /\ proc = "running"
    /\ ~client.built
    /\ LET key == GetValue(assistant_config, <<OpenaiKey, TokenKey>>)
           name == GetValue(assistant_config, <<OpenaiKey, ModelKey>>)
       IN  IF key.exc = "TypeError" \/ name.exc = "TypeError"
           THEN proc' = "raised" /\ UNCHANGED client
           ELSE /\ client' = [built |-> TRUE,
                              api_key |-> IF key.exc = "ValueError"
                                          THEN client.api_key ELSE key.val,
                              model_name |-> IF name.exc = "ValueError"
                                             THEN DefaultModel ELSE name.val]
                /\ UNCHANGED proc
    /\ UNCHANGED <<assistant_config, conv, rc_pc, chat, rc_response,
                   returned, requests>>

(* OpenaiGPT.run_prompt: the request of openai_gpt.py:76-92 is made with   *)
(* whatever openai.api_key holds.                                          *)
OpenaiGPTRunPrompt ==
    /\ proc = "running"
    /\ client.built
    /\ requests["client"] < MaxRequests
    /\ requests' = [requests EXCEPT !["client"] = @ + 1]
    /\ UNCHANGED <<assistant_config, proc, client, conv, rc_pc, chat,
                   rc_response, returned>>

(* The messages typed at the prompt of run_assistant. *)
Messages == {"", "quit"} \cup UserPrompts

(* run_assistant on 'quit' and on an empty line. *)
RunAssistant(message) ==
    /\ proc = "running"
    /\ rc_pc = "input"
    /\ message \in {"", "quit"}
    /\ rc_pc' = IF message = "quit" THEN "done" ELSE rc_pc
    /\ UNCHANGED <<assistant_config, proc, client, conv, chat, rc_response,
                   returned, requests>>

(* The client run_conversation is written against: chat_completion gives   *)
(* the message of the backend's choice.                                    *)
ChatCompletion(choice) == choice.message

(* run_conversation gave no value: the function ran off its end. *)
ReturnedNone == [kind |-> "none", exc |-> None, message |-> NoMessage]

(* assistant.py:96-111: the token, or the way run_conversation ends        *)
(* without one; with a token and no model, line 110 reads the local        *)
(* `model` before it is bound.                                             *)
ClientConfig(cfg) ==
    IF cfg = PyAbsent THEN Failed("TypeError")
    ELSE IF ~Contains(cfg, OpenaiKey) THEN Failed("quit")
    ELSE LET section == DictGet(cfg.v, OpenaiKey)
         IN  IF ~Contains(section, TokenKey) THEN Failed("quit")
             ELSE IF section.t # "dict" THEN Failed("TypeError")
             ELSE IF ~Contains(section, ModelKey) THEN Failed("UnboundLocalError")
             ELSE Found(DictGet(section.v, TokenKey))

(* run_assistant on any other message: run_conversation(message), lines    *)
(* 93-142, with the backend's choices for its two requests.                *)
RunConversation(message, first, second) ==
    /\ proc = "running"
    /\ rc_pc = "input"
    /\ message \notin {"", "quit"}
    /\ requests["assistant"] < MaxRequests
    /\ LET cfg == ClientConfig(assistant_config)
           answer == ChatCompletion(first)
           function_name == answer.function_call.name
           function_response ==
               FunctionCall(catalog, function_name, answer.function_call.arguments)
       IN  IF cfg.exc # None
           THEN /\ proc' = IF cfg.exc = "quit" THEN "exited" ELSE "raised"
                /\ UNCHANGED <<rc_pc, chat, rc_response, returned, requests>>
           ELSE IF HasCall(answer)
           THEN /\ chat' = <<UserMessage(message), answer,
                            FunctionMessage(function_name, function_response),
                            ChatCompletion(second)>>
                /\ rc_response' = ChatCompletion(second)
                /\ returned' = Returned(ChatCompletion(second))
                /\ requests' = [requests EXCEPT !["assistant"] = @ + 2]
                /\ rc_pc' = "print"
                /\ UNCHANGED proc
           ELSE /\ chat' = <<UserMessage(message), answer>>
                /\ rc_response' = answer
                /\ returned' = ReturnedNone
                /\ requests' = [requests EXCEPT !["assistant"] = @ + 1]
                /\ rc_pc' = "print"
                /\ UNCHANGED proc
    /\ UNCHANGED <<assistant_config, client, conv>>

(* assistant.py:155: print(response['content']). *)
PrintResponse ==
    /\ proc = "running"
    /\ rc_pc = "print"
    /\ IF returned = ReturnedNone
       THEN proc' = "raised" /\ UNCHANGED rc_pc
       ELSE rc_pc' = "input" /\ UNCHANGED proc
    /\ UNCHANGED <<assistant_config, client, conv, chat, rc_response,
                   returned, requests>>

AssistantInit ==
    /\ prompts = <<>>
    /\ has_prompts = FALSE
    /\ catalog = FunctionList
    /\ pc = "idle"
    /\ response = NoResponse
    /\ sent = <<>>
    /\ result = NoResult
    /\ base = 0
    /\ rounds = 0
    /\ calls = 0
    /\ turns = 0
    /\ invocations = 0
    /\ last = "init"
    /\ NoOtherCall
    /\ assistant_config \in Configs
    /\ proc = "running"
    /\ client = NoClient
    /\ conv = NoConversation
    /\ rc_pc = "input"
    /\ chat = <<>>
    /\ rc_response = NoMessage
    /\ returned = NoResult
    /\ requests = [w \in Callers |-> 0]

AssistantNext ==
    /\ \/ \E model_name \in {"openai", "llama"} : ConversationInit(model_name)
       \/ ConversationRunPrompt
       \/ OpenaiGPTInit
       \/ OpenaiGPTRunPrompt
       \/ \E message \in Messages : RunAssistant(message)
       \/ \E message \in Messages, first \in ApiChoices, second \in ApiChoices :
             RunConversation(message, first, second)
       \/ PrintResponse
    /\ UNCHANGED <<loopVars, pureVars>>

AssistantSpec == AssistantInit /\ [][AssistantNext]_vars

-----------------------------------------------------------------------------
(* config.load, config.check_value and config.get_value called one after   *)
(* the other on the stored configuration.                                  *)

(* What the file named to load() may be when it is called: no such file,   *)
(* a file that cannot be opened, a file removed between the isfile test    *)
(* and open, or a file with a YAML document.                               *)
FileKinds == {"missing", "unreadable", "vanishing", "file"}

(* The documents yaml.safe_load may give: None for an empty file, a        *)
(* scalar, or a mapping.                                                   *)
Documents ==
    {PyAbsent,
     PyStr(<<"t", "e", "x", "t">>),
     PyDict(<<<<LogLevelKey, PyStr(<<"d", "e", "b", "u", "g">>)>>>>)}
    \cup {PyDict(<<<<OpenaiKey, PyDict(section)>>>>) :
            section \in {<<<<TokenKey, GivenToken>>>>,
                         <<<<ModelKey, GivenModel>>>>,
                         <<<<TokenKey, GivenToken>>, <<ModelKey, GivenModel>>>>}}

(* The file of a call: what kind it is and, for a file, its document. *)
Files ==
    {[kind |-> k, doc |-> PyAbsent] : k \in FileKinds \ {"file"}}
    \cup {[kind |-> "file", doc |-> doc] : doc \in Documents}

(* The config_file argument: None for the default location, or a name. *)
ConfigFiles == {None, "local.yaml"}

(* Line 81 and line 86: the file name load() works on. *)
Filename(config_file) ==
    IF config_file = None THEN "./assistant.yaml" ELSE config_file

(* What load() gives: None, an error message about the file, or an         *)
(* exception it does not handle.                                           *)
LoadResult(e, message, filename) == [exc |-> e, message |-> message, filename |-> filename]

(* dict.update(new): each pair of the new mapping put at the top level. *)
RECURSIVE DictUpdate(_, _)
DictUpdate(pairs, new) ==
    IF new = <<>> THEN pairs
    ELSE DictUpdate(DictPut(pairs, new[1][1], new[1][2]), Tail(new))

(* Lines 68-71: the stored configuration once load() has initialised it. *)
Initialised(cfg) == IF cfg = PyAbsent THEN PyDict(DefaultConfig) ELSE cfg

(* config.load(config_file) with the named file being `file`. *)
Load(config_file, file) ==
    /\ fn' = "load"
    /\ stage' = "done"
    /\ input' = [config_file |-> config_file, file |-> file]
    /\ LET stored == Initialised(assistant_config)
           filename == Filename(config_file)
       IN  CASE file.kind = "missing" ->
                  /\ assistant_config' = stored
                  /\ output' = LoadResult(None, None, None)
             [] file.kind = "unreadable" ->
                  /\ assistant_config' = stored
                  /\ output' = LoadResult(None, "Unable to open configuration file", filename)
             [] file.kind = "vanishing" ->
                  /\ assistant_config' = stored
                  /\ output' = LoadResult(None, "Configuration file not found", filename)
             [] file.kind = "file" /\ file.doc = PyAbsent ->
                  /\ assistant_config' = stored
                  /\ output' = LoadResult(None, None, None)
             [] file.kind = "file" /\ file.doc.t = "str" ->
                  /\ assistant_config' = stored
                  /\ output' = LoadResult("ValueError", None, None)
             [] file.kind = "file" /\ file.doc.t = "dict" ->
                  /\ assistant_config' = PyDict(DictUpdate(stored.v, file.doc.v))
                  /\ output' = LoadResult(None, None, None)
    /\ UNCHANGED <<proc, client, conv, rc_pc, chat, rc_response, returned, requests>>

(* The dot-separated keys asked for, as their components. *)
Keys ==
    {<<LogLevelKey>>, <<OpenaiKey>>, <<OpenaiKey, TokenKey>>, <<OpenaiKey, ModelKey>>,
     <<LogLevelKey, TokenKey>>, <<LogLevelKey, <<"w", "a", "r", "n">>>>, <<TokenKey>>}

(* The loop of check_value over the components of the key. *)
RECURSIVE CheckWalk(_, _)
CheckWalk(node, ks) ==
    IF ks = <<>> THEN [exc |-> None, val |-> TRUE]
    ELSE IF ~Contains(node, ks[1]) THEN [exc |-> None, val |-> FALSE]
    ELSE IF node.t = "dict" THEN CheckWalk(DictGet(node.v, ks[1]), Tail(ks))
    ELSE [exc |-> "TypeError", val |-> FALSE]

(* config.check_value(key) *)
CheckValue(cfg, ks) ==
    IF cfg = PyAbsent THEN [exc |-> None, val |-> FALSE] ELSE CheckWalk(cfg, ks)

NotCalled == [exc |-> "not called", val |-> PyAbsent]

(* check_value(key) on the stored configuration. *)
CheckValueCall(key) ==
    /\ fn' = "check_value"
    /\ stage' = "done"
    /\ input' = key
    /\ output' = [check |-> CheckValue(assistant_config, key), get |-> NotCalled]
    /\ UNCHANGED procVars

(* get_value(key) for the key check_value was just asked about. *)
GetValueCall ==
    /\ fn = "check_value"
    /\ fn' = "get_value"
    /\ output' = [output EXCEPT !.get = GetValue(assistant_config, input)]
    /\ UNCHANGED <<stage, input, procVars>>

ConfigInit ==
    /\ prompts = <<>>
    /\ has_prompts = FALSE
    /\ catalog = FunctionList
    /\ pc = "idle"
    /\ response = NoResponse
    /\ sent = <<>>
    /\ result = NoResult
    /\ base = 0
    /\ rounds = 0
    /\ calls = 0
    /\ turns = 0
    /\ invocations = 0
    /\ last = "init"
    /\ NoOtherCall
    /\ NoProcess

ConfigNext ==
    /\ \/ \E config_file \in ConfigFiles, file \in Files : Load(config_file, file)
       \/ \E key \in Keys : CheckValueCall(key)
       \/ GetValueCall
    /\ UNCHANGED loopVars

ConfigSpec == ConfigInit /\ [][ConfigNext]_vars

-----------------------------------------------------------------------------
(* Properties *)

Last(ps) == ps[Len(ps)]

IsPrefix(ps, qs) == Len(ps) <= Len(qs) /\ SubSeq(qs, 1, Len(ps)) = ps

(* A step in which run_prompt_old returns a final answer to its caller. *)
FinalAnswerStep ==
    /\ pc = "invoke"
    /\ pc' = "idle"
    /\ result'.kind = "message"
    /\ response'.next_step = "stop"

(* The messages of a turn entered at history length b, with n function     *)
(* round-trips: user, n times (assistant function call, function result),  *)
(* assistant.                                                              *)
TurnShape(ps, b, n) ==
    /\ Len(ps) = b + 2 + 2 * n
    /\ ps[b + 1].role = "user"
    /\ \A i \in 1..n :
          /\ ps[b + 2 * i].role = "assistant"
          /\ HasCall(ps[b + 2 * i])
          /\ ps[b + 2 * i + 1].role = "function"
    /\ Last(ps).role = "assistant"
    /\ ~HasCall(Last(ps))

(* C1: a turn in which the model requests n >= 1 function calls and then   *)
(* gives a final answer grows the history by exactly 2 + 2n messages: the  *)
(* user message, n pairs of assistant function-call message and function   *)
(* result message, and the final assistant message, in this order.         *)
C1_FunctionTurnGrowth ==
    [][FinalAnswerStep /\ rounds >= 1 =>
           /\ TurnShape(prompts', base, rounds)
           /\ IsPrefix(SubSeq(prompts, 1, base), prompts')]_vars

C1_Witness ==
    /\ pc = "idle"
    /\ result.kind = "message"
    /\ response.next_step = "stop"
    /\ rounds = 2
    /\ Len(prompts) = base + 6
    /\ base > 0

(* C2: in turns in which the model never requests a function call, each    *)
(* run_prompt_old call grows the history by exactly 2 messages, the user   *)
(* message followed by the assistant message.                              *)
C2_PlainTurnGrowth ==
    [][FinalAnswerStep /\ rounds = 0 =>
           /\ Len(prompts') = base + 2
           /\ prompts' = SubSeq(prompts, 1, base)
                           \o <<prompts[base + 1], result'.message>>
           /\ prompts[base + 1].role = "user"
           /\ result'.message.role = "assistant"]_vars

C2_Witness ==
    /\ pc = "idle"
    /\ turns = 2
    /\ result.kind = "message"
    /\ response.next_step = "stop"
    /\ rounds = 0
    /\ base = 2
    /\ Len(prompts) = 4
    /\ \A i \in 1..4 : ~HasCall(prompts[i]) /\ prompts[i].role # "function"

(* C3: within one turn at most MaxRoundTrips function round-trips are      *)
(* made: a function call the model requests after MaxRoundTrips            *)
(* round-trips is not pending for dispatch.                                *)
C3_RoundTripLimit == pc = "pending" => rounds < MaxRoundTrips

(* C4: every turn terminates whatever the model answers.  In its finite    *)
(* form: a turn whose round-trips are used up is not about to invoke the   *)
(* model once more, so a model that requests a function call on every      *)
(* invocation is invoked at most MaxRoundTrips + 1 times in a turn.        *)
C4_TurnTerminates == pc = "invoke" => rounds <= MaxRoundTrips

(* The outcome of the last invocation is neither a final answer nor a      *)
(* function call.                                                          *)
ErrorOutcome(resp) == resp.next_step \notin {None, "stop", "function_call"}

(* C5: when a model invocation fails (the backend call raises a transport  *)
(* failure, or the response's outcome is neither final answer nor          *)
(* function call), the history after the turn is the history before that   *)
(* invocation.                                                             *)
C5_FailedInvocationKeepsHistory ==
    [][pc = "invoke" /\ pc' = "idle"
          /\ (result'.exc = "APIError" \/ ErrorOutcome(response'))
       => prompts' = prompts]_vars

(* C6: a transport failure of the backend is given to the caller as an     *)
(* error-shaped result, not as an exception leaving run_prompt_old.        *)
C6_TransportFailureIsResult ==
    ~(result.kind = "raised" /\ result.exc = "APIError")

(* C7: an error outcome is never retried: once the model client reports an *)
(* outcome other than 'stop' or 'function_call', the loop returns the      *)
(* response's message to the caller, and makes no further model invocation *)
(* and no function dispatch in that turn.                                  *)
C7_ErrorNotRetried ==
    [][/\ ErrorOutcome(response') =>
             /\ pc' = "idle"
             /\ result' = Returned(response'.message)
       /\ ErrorOutcome(response) /\ ErrorOutcome(response') =>
             /\ calls' = calls
             /\ rounds' = rounds
             /\ invocations' = invocations]_vars

C7_Witness ==
    /\ pc = "idle"
    /\ ErrorOutcome(response)
    /\ rounds >= 1
    /\ calls = rounds + 1
    /\ result = Returned(response.message)

(* C8: when the arguments the backend sent are not valid JSON, the model   *)
(* client returns a response with an error outcome instead of raising.     *)
C8_DecodingFailureIsResult ==
    ~(result.kind = "raised" /\ result.exc = "JSONDecodeError")

ResetStep == pc = "idle" /\ turns' = turns

(* C10: the history is append-only between resets: every step that is not  *)
(* a reset leaves the history a prefix of the new history, so no message   *)
(* in it is changed or removed; the encoding of the function_call          *)
(* arguments for the request acts on the request alone.                    *)
C10_AppendOnly ==
    [][~ResetStep => IsPrefix(prompts, prompts')]_vars

C10_Witness ==
    /\ pc = "idle"
    /\ calls >= 2
    /\ \E i \in 1..Len(sent) :
          /\ i <= Len(prompts)
          /\ HasCall(prompts[i])
          /\ prompts[i].function_call.arguments.t = "dict"
          /\ sent[i].function_call.arguments = MysqlText
          /\ sent[i] # prompts[i]

(* A step in which run_prompt_old hands a request to the backend. *)
BackendCalled == pc = "invoke" /\ calls' = calls + 1 /\ ~EncodeRaises(prompts)

(* The request holds the messages of the history, one for one. *)
SameMessages(req, ps) ==
    /\ Len(req) = Len(ps)
    /\ \A i \in 1..Len(ps) :
          /\ req[i].role = ps[i].role
          /\ req[i].content = ps[i].content
          /\ req[i].name = ps[i].name
          /\ req[i].function_call.present = ps[i].function_call.present
          /\ req[i].function_call.name = ps[i].function_call.name

(* C12: every model invocation is given the complete current history: the  *)
(* first invocation of a turn all earlier messages and the new user        *)
(* message, the invocation after a function execution the request before   *)
(* it extended by the assistant function-call message and the function     *)
(* result message.                                                         *)
C12_FullHistorySent ==
    [][BackendCalled =>
           /\ SameMessages(sent', prompts)
           /\ calls = 0 =>
                 /\ Len(sent') = base + 1
                 /\ sent'[base + 1].role = "user"
           /\ calls >= 1 =>
                 /\ IsPrefix(sent, sent')
                 /\ Len(sent') = Len(sent) + 2
                 /\ sent'[Len(sent) + 1].role = "assistant"
                 /\ HasCall(sent'[Len(sent) + 1])
                 /\ sent'[Len(sent) + 2].role = "function"]_vars

C12_Witness ==
    /\ calls = 2
    /\ base > 0
    /\ Len(sent) = base + 3
    /\ sent[1].role = "user"
    /\ sent[base + 1].role = "user"
    /\ HasCall(sent[base + 2])
    /\ sent[base + 3].role = "function"

(* C13: reset() leaves the history empty, so the first model invocation of *)
(* the turn after it receives the new user message and nothing of the      *)
(* earlier turns.                                                          *)
C13_ResetForgets ==
    [][/\ last' = "reset" => prompts' = <<>> /\ has_prompts'
       /\ last = "reset" /\ last' = "prompt" =>
             /\ base' = 0
             /\ Len(prompts') = 1
             /\ prompts'[1].role = "user"
       /\ BackendCalled /\ calls = 0 /\ base = 0 =>
             /\ Len(sent') = 1
             /\ sent'[1] = prompts[1]
             /\ sent'[1].role = "user"]_vars

C13_Witness ==
    /\ turns = 2
    /\ base = 0
    /\ calls = 1
    /\ invocations >= 3
    /\ Len(sent) = 1
    /\ sent[1].role = "user"

(* C14: reset() is idempotent: a reset() that follows a reset() changes    *)
(* nothing.                                                                *)
C14_ResetIdempotent ==
    [][last = "reset" /\ last' = "reset" =>
           /\ prompts' = prompts
           /\ has_prompts' = has_prompts
           /\ UNCHANGED <<catalog, pc, response, sent, result>>]_vars

C14_Witness ==
    /\ last = "reset"
    /\ pc = "idle"
    /\ turns >= 1
    /\ invocations >= 2
    /\ prompts = <<>>
    /\ has_prompts

(* C15: a newly constructed Conversation has a history without reset():    *)
(* a prompt issued as its first operation appends the user message to the  *)
(* empty history and goes on to invoke the model.                          *)
C15_NewConversationHasHistory ==
    [][last = "init" /\ last' = "prompt" =>
           /\ Len(prompts') = 1
           /\ prompts'[1].role = "user"
           /\ pc' = "invoke"]_vars

(* C20: in every history each function-role message directly follows an   *)
(* assistant message carrying a function_call of the same name, and no     *)
(* model invocation happens between the appending of the function-call     *)
(* message and that of its function result.                                *)
C20_FunctionFollowsCall ==
    [][/\ \A i \in 1..Len(prompts') :
             prompts'[i].role = "function" =>
                 /\ i > 1
                 /\ prompts'[i - 1].role = "assistant"
                 /\ HasCall(prompts'[i - 1])
                 /\ prompts'[i].name = prompts'[i - 1].function_call.name
       /\ pc = "pending" =>
             /\ HasCall(Last(prompts))
             /\ calls' = calls
             /\ invocations' = invocations
             /\ prompts' = Append(prompts, Last(prompts'))
             /\ Last(prompts').role = "function"]_vars

C20_Witness ==
    /\ rounds = 2
    /\ pc = "invoke"
    /\ Len(prompts) = base + 5
    /\ prompts[base + 3].role = "function"
    /\ prompts[base + 5].role = "function"
    /\ prompts[base + 5].name = prompts[base + 4].function_call.name

(* C16: encoding and then decoding a function-call argument mapping       *)
(* yields the mapping, the empty mapping included.                         *)
C16_RoundTrip == stage = "decoded" => output = input

C16_Witness ==
    /\ stage = "decoded"
    /\ Len(input.v) = MaxPairs
    /\ output = input
    /\ output.t = "dict"

(* The servers of a type, in catalog order. *)
ServersOfType(db_type) ==
    LET OfType(server) == Lower(server.type) = db_type
    IN  SelectSeq(Servers, OfType)

(* C18: ListServers called with an accepted database type, in any letter   *)
(* case, returns the CSV header followed by one row for each server of     *)
(* that type, in catalog order, and no row of another type.                *)
C18_ListServersByType ==
    /\ fn = "ListServers"
    /\ stage = "done"
    /\ input.db_type.given = "str"
    /\ Lower(input.db_type.str) \in DbKeys
    => output = Csv(ServersHeader, ServersOfType(Lower(input.db_type.str)))

(* The optional argument is left out, None or the empty string. *)
Missing(arg) == arg.given \in {"omitted", "none"} \/ arg = StrArg(<<>>)

(* C19: a missing optional filter takes the unfiltered default: ListServers *)
(* without db_type returns the header and a row for every server,          *)
(* ListDatabases without db_server and db_type the header and a row for    *)
(* every database.                                                         *)
C19_MissingFilterListsAll ==
    /\ (fn = "ListServers" /\ stage = "done" /\ Missing(input.db_type)
          => output = Csv(ServersHeader, Servers))
    /\ (fn = "ListDatabases" /\ stage = "done" /\ Missing(input.db_type)
          /\ Missing(input.db_server)
          => output = Csv(DatabasesHeader, Databases))

C19_Witness ==
    /\ fn = "ListDatabases"
    /\ stage = "done"
    /\ input.db_type = NoneArg
    /\ input.db_server = Omitted
    /\ output.kind = "csv"
    /\ Len(output.rows) = Len(Databases)

(* The configuration holds no OpenAI token. *)
LacksToken == GetValue(assistant_config, <<OpenaiKey, TokenKey>>).exc # None

(* C17: no model invocation is ever made by a Conversation or a model      *)
(* client built from a configuration that lacks the OpenAI token, nor by a *)
(* Conversation built for an unknown model identifier.                     *)
C17_NoInvocationAfterConfigError ==
    /\ (LacksToken => \A w \in Callers : requests[w] = 0)
    /\ (conv.state = "halfbuilt" => requests["conversation"] = 0)

ArgText(arg) == IF arg.given = "str" THEN arg.str ELSE <<>>

(* C21: ListServers and ListDatabases called with a non-empty db_type that *)
(* lower-cased is not an accepted type return the message naming that type *)
(* and neither header nor rows.                                            *)
C21_UnknownTypeMessage ==
    /\ stage = "done"
    /\ ArgText(input.db_type) # <<>>
    /\ Lower(ArgText(input.db_type)) \notin DbKeys
    => /\ output.kind = "message"
       /\ output.key = Lower(ArgText(input.db_type))
       /\ output.header = None
       /\ output.rows = <<>>

C21_Witness ==
    /\ fn = "ListDatabases"
    /\ stage = "done"
    /\ input.db_type = StrArg(<<"O", "r", "a", "c", "l", "e">>)
    /\ input.db_server = StrArg(SrDbs01)
    /\ output.kind = "message"

(* The databases that match both filters ignoring case, in catalog order. *)
DatabasesMatching(type_text, server_text) ==
    LET Matches(db) ==
            /\ (type_text = <<>> \/ Lower(type_text) = Lower(db.type))
            /\ (server_text = <<>> \/ Lower(server_text) = Lower(db.server))
    IN  SelectSeq(Databases, Matches)

IsErrorMessage(res) == res.exc = None /\ res.message # None

(* C23: load() returns None when the configuration was loaded and an error *)
(* message otherwise; for a file that does not exist or cannot be opened   *)
(* it returns an error message and leaves the stored configuration as it   *)
(* was.                                                                    *)
C23_LoadReportsFailure ==
    [][fn' = "load" =>
          /\ (input'.file.kind = "file" /\ input'.file.doc.t # "str"
                => output' = LoadResult(None, None, None))
          /\ (input'.file.kind # "file"
                => IsErrorMessage(output') /\ assistant_config' = assistant_config)]_vars

(* The key resolves in the configuration. *)
Resolves(cfg, ks) == GetValue(cfg, ks).exc = None

(* C24: after load() of a mapping B over the stored configuration A, every *)
(* key that resolved in A and is not set in B resolves to the same value   *)
(* as before.                                                              *)
C24_LoadKeepsOtherKeys ==
    [][fn' = "load" /\ input'.file.kind = "file" /\ input'.file.doc.t = "dict" =>
          \A ks \in Keys :
              Resolves(assistant_config, ks) /\ ~Resolves(input'.file.doc, ks)
              => GetValue(assistant_config', ks) = GetValue(assistant_config, ks)]_vars

(* C25: check_value(key) is True exactly when get_value(key) returns a     *)
(* value and False exactly when it raises ValueError, and neither fails in *)
(* any other way.                                                          *)
C25_CheckAgreesWithGet ==
    fn = "get_value" =>
        /\ output.check.exc = None
        /\ output.get.exc \in {None, "ValueError"}
        /\ (output.check.val <=> output.get.exc = None)

====
